---- MODULE Spec2Model ----
(***************************************************************************)
(* Model of plugins/modules/one_clicks_info.py: one invocation of the      *)
(* module, from the import-time library probes through main(), the         *)
(* constructor of OneClickApplicationsInformation and present().           *)
(*                                                                         *)
(* Text that the code transforms (the type names, the result messages) is  *)
(* a sequence of string fragments, so that str.capitalize() and the        *)
(* f-string are computed rather than assumed.  Python's None is the empty  *)
(* sequence for sequence-valued data (both are falsy and neither equals a  *)
(* type choice) and the string "None" for the state parameter.             *)
(***************************************************************************)
EXTENDS Integers, Sequences, FiniteSets, TLC

VARIABLES pc, HAS_AZURE_LIBRARY, HAS_PYDO_LIBRARY, params, client,
          self_state, self_type, requests, response, one_clicks, exc,
          results, outcome

vars == <<pc, HAS_AZURE_LIBRARY, HAS_PYDO_LIBRARY, params, client,
          self_state, self_type, requests, response, one_clicks, exc,
          results, outcome>>

\* ------------------------------------------------------------------ bounds
MaxCatalog == 2

\* ------------------------------------------------------------ input domains
None == << >>

Droplet == <<"d", "r", "o", "p", "l", "e", "t">>

Kubernetes == <<"k", "u", "b", "e", "r", "n", "e", "t", "e", "s">>

\* choices=["droplet", "kubernetes"]
TypeChoices == {Droplet, Kubernetes}

\* module.params.get("type"): a choice, or None when the option is not given
TypeParams == TypeChoices \cup {None}

\* module.params.get("state"): None when the parameter is absent
StateValues == {"present", "absent", "None"}

Slugs == {"netdata", "cpanel"}

\* an entry of the remote catalog; type is None when the entry has no type key
Entries == [slug : Slugs, type : TypeChoices \cup {None}]

RECURSIVE SeqsUpTo(_, _)
SeqsUpTo(S, n) ==
    IF n = 0 THEN {<< >>}
    ELSE LET shorter == SeqsUpTo(S, n - 1)
         IN  shorter \cup {Append(s, e) : s \in {t \in shorter : Len(t) = n - 1}, e \in S}

NoResponse == [has_1_clicks |-> FALSE, clicks |-> << >>]

\* what client.one_clicks.list() can return: a dict with or without "1_clicks"
Responses ==
    {NoResponse} \cup
    {[has_1_clicks |-> TRUE, clicks |-> c] : c \in SeqsUpTo(Entries, MaxCatalog)}

NoError == [class |-> "NoError"]

\* what client.one_clicks.list() can raise: the HttpResponseError the module
\* imports, or an error of another class (a failed connection)
ListErrors ==
    {[class |-> "HttpResponseError", message |-> m, status_code |-> s, reason |-> r] :
        m \in {"Unable to authenticate you", "Server Error"},
        s \in {401, 500},
        r \in {"Unauthorized", "Internal Server Error"}}
    \cup {[class |-> "ServiceRequestError"]}

\* ------------------------------------------------------------- pure helpers
LowerLetters == <<"a", "b", "c", "d", "e", "f", "g", "h", "i", "j", "k", "l", "m",
                  "n", "o", "p", "q", "r", "s", "t", "u", "v", "w", "x", "y", "z">>

UpperLetters == <<"A", "B", "C", "D", "E", "F", "G", "H", "I", "J", "K", "L", "M",
                  "N", "O", "P", "Q", "R", "S", "T", "U", "V", "W", "X", "Y", "Z">>

Upper(c) ==
    IF \E i \in 1..Len(LowerLetters) : LowerLetters[i] = c
    THEN UpperLetters[CHOOSE i \in 1..Len(LowerLetters) : LowerLetters[i] = c]
    ELSE c

Lower(c) ==
    IF \E i \in 1..Len(UpperLetters) : UpperLetters[i] = c
    THEN LowerLetters[CHOOSE i \in 1..Len(UpperLetters) : UpperLetters[i] = c]
    ELSE c

\* str.capitalize(): first character upper-cased, the rest lower-cased
Capitalize(s) ==
    [i \in 1..Len(s) |-> IF i = 1 THEN Upper(s[i]) ELSE Lower(s[i])]

\* one_clicks_info.get("1_clicks")
Get1Clicks(resp) == IF resp.has_1_clicks THEN resp.clicks ELSE None

\* `if one_clicks:`
HasEntriesAlways(v) == TRUE

HasEntries(v) == v # << >>

\* `if click_type:`
HasFilter(v) == v # << >>

\* list(filter(lambda val: val.get("type") == click_type, one_clicks))
RECURSIVE FilterClicksNeq(_, _)
FilterClicksNeq(clicks, click_type) ==
    IF clicks = << >> THEN << >>
    ELSE IF Head(clicks).type # click_type
         THEN <<Head(clicks)>> \o FilterClicksNeq(Tail(clicks), click_type)
         ELSE FilterClicksNeq(Tail(clicks), click_type)

RECURSIVE FilterClicks(_, _)
FilterClicks(clicks, click_type) ==
    IF clicks = << >> THEN << >>
    ELSE IF Head(clicks).type = click_type
         THEN <<Head(clicks)>> \o FilterClicks(Tail(clicks), click_type)
         ELSE FilterClicks(Tail(clicks), click_type)

\* keyword arguments of the exit_json call of the filtered branch
FilteredResult(clicks, click_type, type) ==
    [changed    |-> FALSE,
     msg        |-> <<"Current ">> \o Capitalize(type) \o <<" 1-Click applications">>,
     one_clicks |-> FilterClicks(clicks, click_type)]

\* keyword arguments of the exit_json call of the unfiltered branch
UnfilteredResultDroplets(clicks) ==
    [changed    |-> FALSE,
     msg        |-> <<"Current 1-Click applications">>,
     one_clicks |-> FilterClicks(clicks, Droplet)]

UnfilteredResult(clicks) ==
    [changed    |-> FALSE,
     msg        |-> <<"Current 1-Click applications">>,
     one_clicks |-> clicks]

\* keyword arguments of the fail_json call for an empty catalog
NotFoundResult ==
    [changed |-> FALSE, msg |-> <<"Current 1-Click applications not found">>]

\* the error dict built by the except clause, and the fail_json arguments
ErrorDict(err) ==
    ("Message" :> err.message) @@ ("Status Code" :> err.status_code)
        @@ ("Reason" :> err.reason)

ErrorResultReasonAsMsg(err) ==
    [changed |-> FALSE, msg |-> <<ErrorDict(err)["Reason"]>>, error |-> ErrorDict(err)]

ErrorResult(err) ==
    [changed |-> FALSE, msg |-> <<ErrorDict(err)["Message"]>>, error |-> ErrorDict(err)]

\* missing_required_lib(library): a message naming the library
missing_required_lib(library) ==
    <<"Failed to import the required Python library (", library, ")">>

MissingLibResult(library) ==
    [msg |-> missing_required_lib(library), exception |-> <<"ImportError: ", library>>]

\* the except clause of present() names one class
Catches(class) == class = "HttpResponseError"

\* module.exit_json(**kwargs): emits kwargs and ends the process
ExitJson(kwargs) ==
    /\ results' = Append(results, kwargs)
    /\ outcome' = "exit_json"
    /\ pc' = "done"

\* module.fail_json(**kwargs): emits kwargs with failed=True and ends the process
FailJson(kwargs) ==
    /\ results' = Append(results, [failed |-> TRUE] @@ kwargs)
    /\ outcome' = "fail_json"
    /\ pc' = "done"

\* ------------------------------------------------------------------ state
Init ==
    /\ pc = "import_azure"
    /\ HAS_AZURE_LIBRARY = FALSE
    /\ HAS_PYDO_LIBRARY = FALSE
    /\ params = [type |-> None, state |-> "None"]
    /\ client = FALSE
    /\ self_state = "None"
    /\ self_type = None
    /\ requests = 0
    /\ response = NoResponse
    /\ one_clicks = None
    /\ exc = NoError
    /\ results = << >>
    /\ outcome = "running"

\* ---------------------------------------------------------------- actions
\* try: from azure.core.exceptions import HttpResponseError
ImportAzure ==
    /\ pc = "import_azure"
    /\ \E ok \in BOOLEAN : HAS_AZURE_LIBRARY' = ok
    /\ pc' = "import_pydo"
    /\ UNCHANGED <<HAS_PYDO_LIBRARY, params, client, self_state, self_type,
                   requests, response, one_clicks, exc, results, outcome>>

\* try: from pydo import Client
ImportPydo ==
    /\ pc = "import_pydo"
    /\ \E ok \in BOOLEAN : HAS_PYDO_LIBRARY' = ok
    /\ pc' = "main"
    /\ UNCHANGED <<HAS_AZURE_LIBRARY, params, client, self_state, self_type,
                   requests, response, one_clicks, exc, results, outcome>>

\* main(): build the argument spec and the AnsibleModule, which parses params
Main ==
    /\ pc = "main"
    /\ \E t \in TypeParams, s \in StateValues : params' = [type |-> t, state |-> s]
    /\ pc' = "check_azure"
    /\ UNCHANGED <<HAS_AZURE_LIBRARY, HAS_PYDO_LIBRARY, client, self_state,
                   self_type, requests, response, one_clicks, exc, results, outcome>>

\* if not HAS_AZURE_LIBRARY: module.fail_json(...)
CheckAzure ==
    /\ pc = "check_azure"
    /\ IF ~HAS_AZURE_LIBRARY
       THEN FailJson(MissingLibResult("azure.core.exceptions"))
       ELSE pc' = "check_pydo" /\ UNCHANGED <<results, outcome>>
    /\ UNCHANGED <<HAS_AZURE_LIBRARY, HAS_PYDO_LIBRARY, params, client,
                   self_state, self_type, requests, response, one_clicks, exc>>

\* if not HAS_PYDO_LIBRARY: module.fail_json(...)
CheckPydoSkipped ==
    /\ pc = "check_pydo"
    /\ pc' = "construct"
    /\ UNCHANGED <<HAS_AZURE_LIBRARY, HAS_PYDO_LIBRARY, params, client, self_state,
                   self_type, requests, response, one_clicks, exc, results, outcome>>

CheckPydo ==
    /\ pc = "check_pydo"
    /\ IF ~HAS_PYDO_LIBRARY
       THEN FailJson(MissingLibResult("pydo"))
       ELSE pc' = "construct" /\ UNCHANGED <<results, outcome>>
    /\ UNCHANGED <<HAS_AZURE_LIBRARY, HAS_PYDO_LIBRARY, params, client,
                   self_state, self_type, requests, response, one_clicks, exc>>

\* OneClickApplicationsInformation.__init__ up to the call of present();
\* when present() is not called the constructor and main() return
ConstructAlwaysPresent ==
    /\ pc = "construct"
    /\ client' = TRUE
    /\ self_state' = params.state
    /\ self_type' = params.type
    /\ pc' = "present"
    /\ UNCHANGED <<HAS_AZURE_LIBRARY, HAS_PYDO_LIBRARY, params, requests,
                   response, one_clicks, exc, results, outcome>>

Construct ==
    /\ pc = "construct"
    /\ client' = TRUE
    /\ self_state' = params.state
    /\ self_type' = params.type
    /\ IF params.state = "present"
       THEN pc' = "present" /\ outcome' = outcome
       ELSE pc' = "done" /\ outcome' = "returned"
    /\ UNCHANGED <<HAS_AZURE_LIBRARY, HAS_PYDO_LIBRARY, params, requests,
                   response, one_clicks, exc, results>>

\* present(): the list request returns; one_clicks is read and tested
ListReturns ==
    /\ pc = "present"
    /\ requests' = requests + 1
    /\ \E resp \in Responses :
         /\ response' = resp
         /\ one_clicks' = Get1Clicks(resp)
         /\ pc' = IF HasEntries(Get1Clicks(resp)) THEN "check_type" ELSE "not_found"
    /\ UNCHANGED <<HAS_AZURE_LIBRARY, HAS_PYDO_LIBRARY, params, client,
                   self_state, self_type, exc, results, outcome>>

\* present(): the list request raises; the except clause takes the exception
\* when its class matches, otherwise it leaves present() and main() unhandled
ListRaises ==
    /\ pc = "present"
    /\ requests' = requests + 1
    /\ \E e \in ListErrors :
         /\ exc' = e
         /\ IF Catches(e.class)
            THEN pc' = "handler" /\ outcome' = outcome
            ELSE pc' = "done" /\ outcome' = "traceback"
    /\ UNCHANGED <<HAS_AZURE_LIBRARY, HAS_PYDO_LIBRARY, params, client,
                   self_state, self_type, response, one_clicks, results>>

\* click_type = self.module.params.get("type"); if click_type:
CheckType ==
    /\ pc = "check_type"
    /\ pc' = IF HasFilter(params.type) THEN "filtered" ELSE "unfiltered"
    /\ UNCHANGED <<HAS_AZURE_LIBRARY, HAS_PYDO_LIBRARY, params, client, self_state,
                   self_type, requests, response, one_clicks, exc, results, outcome>>

\* the filtered exit_json; the exit it raises is not an HttpResponseError
ExitFiltered ==
    /\ pc = "filtered"
    /\ ExitJson(FilteredResult(one_clicks, params.type, self_type))
    /\ UNCHANGED <<HAS_AZURE_LIBRARY, HAS_PYDO_LIBRARY, params, client,
                   self_state, self_type, requests, response, one_clicks, exc>>

\* the unfiltered exit_json
ExitUnfiltered ==
    /\ pc = "unfiltered"
    /\ ExitJson(UnfilteredResult(one_clicks))
    /\ UNCHANGED <<HAS_AZURE_LIBRARY, HAS_PYDO_LIBRARY, params, client,
                   self_state, self_type, requests, response, one_clicks, exc>>

\* the fail_json of an empty catalog
FailNotFound ==
    /\ pc = "not_found"
    /\ FailJson(NotFoundResult)
    /\ UNCHANGED <<HAS_AZURE_LIBRARY, HAS_PYDO_LIBRARY, params, client,
                   self_state, self_type, requests, response, one_clicks, exc>>

\* except HttpResponseError as err: build the error dict and fail_json
HandlerRetries ==
    /\ pc = "handler"
    /\ IF requests < 2
       THEN pc' = "present" /\ UNCHANGED <<results, outcome>>
       ELSE FailJson(ErrorResult(exc))
    /\ UNCHANGED <<HAS_AZURE_LIBRARY, HAS_PYDO_LIBRARY, params, client,
                   self_state, self_type, requests, response, one_clicks, exc>>

Handler ==
    /\ pc = "handler"
    /\ FailJson(ErrorResult(exc))
    /\ UNCHANGED <<HAS_AZURE_LIBRARY, HAS_PYDO_LIBRARY, params, client,
                   self_state, self_type, requests, response, one_clicks, exc>>

Next ==
    \/ ImportAzure
    \/ ImportPydo
    \/ Main
    \/ CheckAzure
    \/ CheckPydo
    \/ Construct
    \/ ListReturns
    \/ ListRaises
    \/ CheckType
    \/ ExitFiltered
    \/ ExitUnfiltered
    \/ FailNotFound
    \/ Handler

Spec == Init /\ [][Next]_vars

\* ------------------------------------------------------------- properties
IsFailure(r) == "failed" \in DOMAIN r

ReachedPresent == client /\ self_state = "present"

Finished == pc = "done"

NonEmptyCatalog == response.has_1_clicks /\ response.clicks # << >>

ListReturned == ReachedPresent /\ exc = NoError /\ pc # "present"

ExpectedTypeName(t) ==
    IF t = Droplet THEN <<"D", "r", "o", "p", "l", "e", "t">>
    ELSE <<"K", "u", "b", "e", "r", "n", "e", "t", "e", "s">>

\* C1: when the list request returned a non-empty catalog and the type filter
\* is droplet or kubernetes, the invocation ends with exactly one result, a
\* success whose one_clicks is the catalog entries of that type in catalog
\* order (possibly empty) and whose msg is "Current {Type} 1-Click
\* applications" with the type capitalized.
C1_FilteredSuccess ==
    (Finished /\ ListReturned /\ NonEmptyCatalog /\ params.type \in TypeChoices)
        => /\ outcome = "exit_json"
           /\ Len(results) = 1
           /\ ~IsFailure(results[1])
           /\ results[1].changed = FALSE
           /\ results[1].one_clicks =
                  SelectSeq(response.clicks, LAMBDA e : e.type = params.type)
           /\ results[1].msg = <<"Current ">> \o ExpectedTypeName(params.type)
                                   \o <<" 1-Click applications">>

C1_Witness ==
    /\ Finished /\ ListReturned /\ params.type = Kubernetes
    /\ Len(response.clicks) = 2
    /\ response.clicks[1].type = Kubernetes
    /\ response.clicks[2].type = Droplet
    /\ Len(results) = 1
    /\ results[1].one_clicks = <<response.clicks[1]>>

\* C2: when the list request returned a non-empty catalog and no type filter
\* is given, the invocation ends with exactly one result, a success whose
\* one_clicks is the whole catalog in its order and whose msg is "Current
\* 1-Click applications".
C2_UnfilteredSuccess ==
    (Finished /\ ListReturned /\ NonEmptyCatalog /\ params.type = None)
        => /\ outcome = "exit_json"
           /\ Len(results) = 1
           /\ ~IsFailure(results[1])
           /\ results[1].changed = FALSE
           /\ results[1].one_clicks = response.clicks
           /\ results[1].msg = <<"Current 1-Click applications">>

C2_Witness ==
    /\ Finished /\ ListReturned /\ params.type = None
    /\ Len(response.clicks) = 2
    /\ response.clicks[1].type # response.clicks[2].type
    /\ Len(results) = 1
    /\ Len(results[1].one_clicks) = 2

\* C3: when the list request returned an empty catalog (no entries, or no
\* "1_clicks" field), whatever the filter, the invocation ends with exactly
\* one result, a failure with msg "Current 1-Click applications not found"
\* and no error field.
C3_EmptyCatalogFails ==
    (Finished /\ ListReturned /\ ~NonEmptyCatalog)
        => /\ outcome = "fail_json"
           /\ Len(results) = 1
           /\ IsFailure(results[1])
           /\ results[1].msg = <<"Current 1-Click applications not found">>
           /\ "error" \notin DOMAIN results[1]

C3_Witness ==
    /\ Finished /\ ListReturned
    /\ response.has_1_clicks /\ response.clicks = << >>
    /\ params.type = Droplet
    /\ Len(results) = 1 /\ IsFailure(results[1])

\* C4: when the list request raised an HttpResponseError carrying a message,
\* a status code and a reason, the invocation ends with a failure result with
\* changed = false whose error has those three values under "Message",
\* "Status Code" and "Reason" and whose msg is the error's message.
C4_RemoteErrorReported ==
    (Finished /\ exc.class = "HttpResponseError")
        => /\ outcome = "fail_json"
           /\ Len(results) = 1
           /\ IsFailure(results[1])
           /\ results[1].changed = FALSE
           /\ results[1].error["Status Code"] = exc.status_code
           /\ results[1].error["Reason"] = exc.reason
           /\ results[1].error["Message"] = exc.message
           /\ results[1].msg = <<exc.message>>

C4_Witness ==
    /\ Finished /\ exc.class = "HttpResponseError"
    /\ exc.status_code = 401 /\ exc.reason = "Unauthorized"
    /\ Len(results) = 1
    /\ results[1].error["Status Code"] = 401

\* C5: every error raised by the list request, of whatever class, ends the
\* invocation in a reported failure result carrying a structured error
\* record; none leaves present() as an unhandled exception.
C5_EveryErrorReported ==
    (Finished /\ exc # NoError)
        => /\ outcome = "fail_json"
           /\ Len(results) = 1
           /\ IsFailure(results[1])
           /\ "error" \in DOMAIN results[1]

\* C6: when azure.core.exceptions or pydo is missing, the client is never
\* constructed and no list request is ever issued, and the invocation ends
\* with a single failure whose message names the first missing library.
FirstMissing == IF ~HAS_AZURE_LIBRARY THEN "azure.core.exceptions" ELSE "pydo"

C6_MissingLibraryFirst ==
    (pc \notin {"import_azure", "import_pydo"}
         /\ (~HAS_AZURE_LIBRARY \/ ~HAS_PYDO_LIBRARY))
        => /\ ~client
           /\ requests = 0
           /\ pc \notin {"construct", "present"}
           /\ Finished =>
                /\ outcome = "fail_json"
                /\ Len(results) = 1
                /\ IsFailure(results[1])
                /\ \E i \in 1..Len(results[1].msg) : results[1].msg[i] = FirstMissing

C6_Witness ==
    /\ Finished /\ HAS_AZURE_LIBRARY /\ ~HAS_PYDO_LIBRARY
    /\ params.state = "present"
    /\ Len(results) = 1
    /\ results[1].msg[2] = "pydo"

\* C7: every result the module emits, success or failure, has the
\* one_clicks field.
C7_OneClicksAlwaysReturned ==
    \A i \in 1..Len(results) : "one_clicks" \in DOMAIN results[i]

\* C8: in an invocation that reaches present() exactly one list request is
\* issued: none before the call, one from then on, never a second one, also
\* not after a failed request.
C8_ExactlyOneRequest ==
    /\ requests <= 1
    /\ (ReachedPresent /\ pc # "present") => requests = 1
    /\ (exc # NoError) => requests = 1

C8_Witness ==
    /\ Finished /\ ReachedPresent
    /\ exc.class = "HttpResponseError"
    /\ requests = 1
    /\ Len(results) = 1

\* C9: every invocation that reaches present() emits exactly one result: at
\* no time more than one, and one when the invocation has ended.
C9_ExactlyOneResult ==
    /\ Len(results) <= 1
    /\ (Finished /\ ReachedPresent) => Len(results) = 1

\* C10: present() is entered only when state is "present"; for any other
\* state, an absent one included, no list request is issued and the
\* invocation ends without a result.
C10_StateGate ==
    /\ pc \in {"present", "check_type", "filtered", "unfiltered", "not_found", "handler"}
           => self_state = "present"
    /\ (client /\ self_state # "present")
           => /\ requests = 0
              /\ results = << >>
              /\ Finished
              /\ outcome = "returned"

C10_Witness ==
    /\ Finished /\ client /\ self_state = "None"
    /\ HAS_AZURE_LIBRARY /\ HAS_PYDO_LIBRARY
    /\ requests = 0 /\ results = << >>

====
